---- MODULE Spec2Model ----
(***************************************************************************)
(* The multiversion concurrency control coordinator of ptypes/mvcc.py:     *)
(* transactions, pages, page versions and the precedence graph.            *)
(*                                                                         *)
(* The module is Python 2 (print statements, count().next()).  Its         *)
(* semantics are kept where they decide an outcome:                        *)
(*   - dict.items(), dict.values() and dict.keys() are lists (copies);     *)
(*   - set.remove and del d[k] raise KeyError on a missing element;        *)
(*   - a call of a method the status class does not have raises            *)
(*     AttributeError (err = "AttributeError"), and so does reading an     *)
(*     attribute of None (err = "AttributeError: None.<attribute>");       *)
(*   - set |= list raises TypeError (set.__ior__ takes sets only);         *)
(*   - an exception unwinds the whole coordinator call (the only handlers  *)
(*     in the module are the KeyError lookups of readPage/updatePage) and  *)
(*     leaves every assignment made before it in place.                    *)
(* A coordinator call is one action.  The state it works on is passed      *)
(* through the operators as a record s; s.err names the exception that is  *)
(* unwinding ("none" when there is none), s.ret holds the versions the     *)
(* call returns and s.obs what happened inside the call.                   *)
(* Sets and dicts are iterated in ascending transaction number / page      *)
(* ordinal: Python's order is the hash (address) order, arbitrary but the  *)
(* same for every set of one run, and the transactions and pages of the    *)
(* model are interchangeable.                                              *)
(***************************************************************************)
EXTENDS Integers, FiniteSets, Sequences, TLC

\* Bounds of the model.
MaxTrx == 3        \* user transactions (besides the page pool's own)
NumPages == 2      \* PagePool(numPages)
MaxAccess == 4     \* pages resolved (Page.resolveAccess) in one run
MaxDist == 1       \* transactions of a subclass overriding voteYes

Boot == 0          \* the transaction PagePool.__init__ runs
Trx == 1..MaxTrx
AllTrx == 0..MaxTrx
Pages == 0..(NumPages - 1)
Versions == AllTrx \X Pages      \* <<creator, page>>: one version per updatePage
NoTrx == 0 - 1     \* None, where a transaction is expected
NoPage == 0 - 1    \* None, where a page is expected
NoVer == <<>>      \* None, where a page version is expected
NoId == 0 - 1      \* transactionId = None: a local transaction

Private == {"Running", "Failed"}
Public == {"Ready", "Prepared", "Committed"}
Statuses == Private \cup Public \cup {"Aborted"}

VARIABLES
    transactionId,   \* Transaction.transactionId
    overriding,      \* the transactions of a subclass that overrides voteYes
    status,          \* Transaction.status
    readSet,         \* Transaction.readSet: page -> version (NoVer: no key)
    updateSet,       \* Transaction.updateSet: page -> version (NoVer: no key)
    prevTrxs,        \* Transaction.prevTrxs
    nextTrxs,        \* Transaction.nextTrxs
    latestVersion,   \* Page.latestVersion
    vpage,           \* PageVersion.page (NoPage before creation and after removal)
    writerTrx,       \* PageVersion.writerTrx
    readerTrxs,      \* PageVersion.readerTrxs
    prevPageVersion, \* PageVersion.prevPageVersion
    candidateTrxs,   \* PageVersion.candidateTrxs
    supersederTrx,   \* PageVersion.supersederTrx
    removedTrxs,     \* transactions for which removed() was called
    bound,           \* history: the version resolveAccess gave to (trx, page)
    created          \* history: the versions ever constructed

progVars == <<transactionId, overriding, status, readSet, updateSet, prevTrxs, nextTrxs,
              latestVersion, vpage, writerTrx, readerTrxs, prevPageVersion,
              candidateTrxs, supersederTrx>>
vars == <<transactionId, overriding, status, readSet, updateSet, prevTrxs, nextTrxs,
          latestVersion, vpage, writerTrx, readerTrxs, prevPageVersion,
          candidateTrxs, supersederTrx, removedTrxs, bound, created>>

Min(S) == CHOOSE x \in S : \A y \in S : x <= y

\* What happens inside one coordinator call.
NoObs == [entered |-> <<>>,    \* <<trx, status>> in the order of transit2
          prepared |-> {},     \* <<trx, p>>: trx entered Prepared while p, in
                               \* its prevTrxs, was not Committed
          committed |-> {},    \* <<trx, w>>: trx entered Committed bound to a
                               \* version of w, and w was not Committed
          resolved |-> {},     \* <<trx, page, version>> of resolveAccess
          removed |-> {},      \* what removed() found, one record per call of it
          moves |-> {}]        \* <<trx, old status, new status>> of transit2

\* The state a call starts from.
Cur == [transactionId |-> transactionId, overriding |-> overriding,
        status |-> status,
        readSet |-> readSet, updateSet |-> updateSet,
        prevTrxs |-> prevTrxs, nextTrxs |-> nextTrxs,
        latestVersion |-> latestVersion, vpage |-> vpage,
        writerTrx |-> writerTrx, readerTrxs |-> readerTrxs,
        prevPageVersion |-> prevPageVersion,
        candidateTrxs |-> candidateTrxs, supersederTrx |-> supersederTrx,
        removedTrxs |-> removedTrxs, bound |-> bound, created |-> created,
        err |-> "none", ret |-> <<>>, obs |-> NoObs]

Raise(s, e) == [s EXCEPT !.err = e]
Ok(s) == s.err = "none"

\* Transaction.doesSucceed
RECURSIVE doesSucceed(_, _, _)
doesSucceed(s, self, other) ==
    \/ other \in s.prevTrxs[self]
    \/ \E prevTrx \in s.prevTrxs[self] : doesSucceed(s, prevTrx, other)

\* Transaction._precedes: self precedes other
precedes(s, self, other) ==
    IF ~Ok(s) THEN s
    ELSE IF other = self \/ doesSucceed(s, self, other)
    THEN Raise(s, "AssertionError: _precedes")
    ELSE [s EXCEPT !.nextTrxs[self] = @ \cup {other},
                   !.prevTrxs[other] = @ \cup {self}]

\* PageVersion.try2Remove; removed() prints repr(self), which reads
\* self.page.ordinal, and self.page is None once the version was removed.
try2Remove(s, v) ==
    IF ~Ok(s) THEN s
    ELSE IF v = NoVer THEN Raise(s, "AttributeError: None.try2Remove")
    ELSE IF s.writerTrx[v] = NoTrx /\ s.readerTrxs[v] = {}
            /\ s.supersederTrx[v] = NoTrx
    THEN IF s.vpage[v] = NoPage THEN Raise(s, "AttributeError: None.ordinal")
         ELSE [s EXCEPT !.vpage[v] = NoPage]
    ELSE s

\* set.remove(x) on a version's readerTrxs
removeReader(s, v, t) ==
    IF ~Ok(s) THEN s
    ELSE IF v = NoVer THEN Raise(s, "AttributeError: None.readerTrxs")
    ELSE IF t \notin s.readerTrxs[v] THEN Raise(s, "KeyError: readerTrxs")
    ELSE [s EXCEPT !.readerTrxs[v] = @ \ {t}]

\* _selectPageVersion without the walk: the latest version, whoever wrote it.
selectFrom_latest(s, pageVersion, trx) ==
    [err |-> "none", pv |-> pageVersion]

\* Page._selectPageVersion: [err, pv]
RECURSIVE selectFrom(_, _, _)
selectFrom(s, pageVersion, trx) ==
    IF pageVersion = NoVer \/ s.writerTrx[pageVersion] = NoTrx
    THEN [err |-> "AttributeError: None.writerTrx", pv |-> NoVer]
    ELSE IF doesSucceed(s, s.writerTrx[pageVersion], trx)
    THEN IF s.prevPageVersion[pageVersion] = NoVer
         THEN [err |-> "AssertionError: suitable page version", pv |-> NoVer]
         ELSE selectFrom(s, s.prevPageVersion[pageVersion], trx)
    ELSE [err |-> "none", pv |-> pageVersion]

selectPageVersion(s, page, trx) == selectFrom(s, s.latestVersion[page], trx)

\* Page.resolveAccess, the end: the assertion on a public superseder, and
\* the return of the version (left in s.ret)
resolveAccess_return(s, page, trx, pageVersion) ==
    IF ~Ok(s) THEN s
    ELSE IF /\ s.supersederTrx[pageVersion] # NoTrx
            /\ s.status[s.supersederTrx[pageVersion]] \in Public
            /\ ~doesSucceed(s, s.supersederTrx[pageVersion], trx)
    THEN Raise(s, "AssertionError: superseder succeeds")
    ELSE [s EXCEPT !.bound[trx][page] = pageVersion,
                   !.obs.resolved = @ \cup {<<trx, page, pageVersion>>},
                   !.ret = <<pageVersion>>]

\* resolveAccess that does not make the writer precede the reader.
resolveAccess_noEdge(s, page, trx, sel) ==
    IF sel.err # "none" THEN Raise(s, sel.err)
    ELSE resolveAccess_return(
             [s EXCEPT !.readerTrxs[sel.pv] = @ \cup {trx}], page, trx, sel.pv)

\* Page.resolveAccess, after sel == self._selectPageVersion(trx)
resolveAccess_selected(s, page, trx, sel) ==
    IF sel.err # "none" THEN Raise(s, sel.err)
    ELSE resolveAccess_return(
             precedes([s EXCEPT !.readerTrxs[sel.pv] = @ \cup {trx}],
                      s.writerTrx[sel.pv], trx),
             page, trx, sel.pv)

\* Page.resolveAccess
resolveAccess(s, page, trx) ==
    IF ~Ok(s) THEN s
    ELSE resolveAccess_selected(s, page, trx, selectPageVersion(s, page, trx))

\* A PageVersion that makes itself the latest version of its page at once.
PageVersion_published(s, writer, page, prev) ==
    LET v == <<writer, page>>
    IN  [s EXCEPT !.updateSet[writer][page] = v,
                  !.vpage[v] = page,
                  !.writerTrx[v] = writer,
                  !.readerTrxs[v] = {},
                  !.prevPageVersion[v] = prev,
                  !.candidateTrxs[v] = {},
                  !.supersederTrx[v] = NoTrx,
                  !.latestVersion[page] = v,
                  !.created = @ \cup {v}]

\* PageVersion.__init__
PageVersion(s, writer, page, prev) ==
    LET v == <<writer, page>>
    IN  [s EXCEPT !.updateSet[writer][page] = v,
                  !.vpage[v] = page,
                  !.writerTrx[v] = writer,
                  !.readerTrxs[v] = {},
                  !.prevPageVersion[v] = prev,
                  !.candidateTrxs[v] = {},
                  !.supersederTrx[v] = NoTrx,
                  !.created = @ \cup {v}]

\* Transaction.Private.readPage, after pageVersion = page.resolveAccess(trx)
Private_readPage_resolved(s, trx, page) ==
    IF ~Ok(s) THEN s ELSE [s EXCEPT !.readSet[trx][page] = s.ret[1]]

\* A readPage that does not look into readSet: it resolves a page it has
\* read once more.
Private_readPage_uncached(s, trx, page) ==
    IF s.updateSet[trx][page] # NoVer
    THEN [s EXCEPT !.ret = <<s.updateSet[trx][page]>>]
    ELSE Private_readPage_resolved(resolveAccess(s, page, trx), trx, page)

\* Transaction.Private.readPage
Private_readPage(s, trx, page) ==
    IF s.readSet[trx][page] # NoVer
    THEN [s EXCEPT !.ret = <<s.readSet[trx][page]>>]
    ELSE IF s.updateSet[trx][page] # NoVer
    THEN [s EXCEPT !.ret = <<s.updateSet[trx][page]>>]
    ELSE Private_readPage_resolved(resolveAccess(s, page, trx), trx, page)

\* An updatePage that names its transaction the superseder at once.
Private_updatePage_new_superseding(s, trx, page) ==
    IF ~Ok(s) THEN s
    ELSE [PageVersion([s EXCEPT !.candidateTrxs[s.ret[1]] = @ \cup {trx},
                                !.supersederTrx[s.ret[1]] = trx],
                      trx, page, s.ret[1])
             EXCEPT !.ret = <<<<trx, page>>, s.ret[1]>>]

\* Transaction.Private.updatePage, once initPageVersion is known (s.ret[1])
Private_updatePage_new(s, trx, page) ==
    IF ~Ok(s) THEN s
    ELSE [PageVersion([s EXCEPT !.candidateTrxs[s.ret[1]] = @ \cup {trx}],
                      trx, page, s.ret[1])
             EXCEPT !.ret = <<<<trx, page>>, s.ret[1]>>]

\* Transaction.Private.updatePage
Private_updatePage(s, trx, page) ==
    IF s.updateSet[trx][page] # NoVer
    THEN [s EXCEPT !.ret = <<s.updateSet[trx][page]>>]
    ELSE IF s.readSet[trx][page] # NoVer
    THEN Private_updatePage_new(
             [s EXCEPT !.readSet[trx][page] = NoVer,
                       !.ret = <<s.readSet[trx][page]>>],
             trx, page)
    ELSE Private_updatePage_new(resolveAccess(s, page, trx), trx, page)

RECURSIVE transit2(_, _, _), try2Transit(_, _), dispatch_fail(_, _),
          Private_end_loop(_, _, _), Ready_fail_loop(_, _),
          Ready_precedes_loop(_, _, _), Ready_enter_loop(_, _, _),
          Committed_prev_loop(_, _, _), Committed_reader_loop(_, _, _, _),
          Committed_update_loop(_, _, _), Committed_next_loop(_, _),
          Aborted_enter_loop(_, _, _), Aborted_prev_loop(_, _, _),
          Aborted_update_loop(_, _, _), Aborted_read_loop(_, _, _)

\* Transaction.Private.end, the body of the loop: drop the read of a version
\* whose writer is gone
Private_end_page(s, trx, page) ==
    IF s.writerTrx[s.readSet[trx][page]] # NoTrx THEN s
    ELSE try2Remove(
             removeReader([s EXCEPT !.readSet[trx][page] = NoVer],
                          s.readSet[trx][page], trx),
             s.readSet[trx][page])

\* Transaction.Private.end, the loop over readSet.items()
Private_end_loop(s, trx, pages) ==
    IF pages = {} \/ ~Ok(s) THEN s
    ELSE Private_end_loop(Private_end_page(s, trx, Min(pages)),
                          trx, pages \ {Min(pages)})

Private_end(s, trx) ==
    Private_end_loop(s, trx, {p \in Pages : s.readSet[trx][p] # NoVer})

\* Transaction.Public._cascadeAbort.  Its first statement is
\*     updatedPages |= trx.updateSet.keys()
\* with updatedPages a set and keys() a list: TypeError, before any change.
Public_cascadeAbort(s, trx) ==
    IF ~Ok(s) THEN s ELSE Raise(s, "TypeError: set |= list")

\* Transaction.Failed.end
Failed_end(s, trx) ==
    IF ~Ok(s) THEN s
    ELSE transit2(Private_end(s, trx), trx, "Aborted")

\* The test of Running.end without the loop over the readers.
Running_mustFail_noReaders(s, trx) ==
    \E page \in Pages :
       /\ s.updateSet[trx][page] # NoVer
       /\ LET prev == s.prevPageVersion[s.updateSet[trx][page]]
          IN  prev # NoVer /\ s.supersederTrx[prev] # NoTrx

\* The test of Transaction.Running.end: some version trx supersedes has a
\* public superseder, or a reader that succeeds trx.
Running_mustFail(s, trx) ==
    \E page \in Pages :
       /\ s.updateSet[trx][page] # NoVer
       /\ LET prev == s.prevPageVersion[s.updateSet[trx][page]]
          IN  /\ prev # NoVer
              /\ \/ s.supersederTrx[prev] # NoTrx
                 \/ \E readerTrx \in s.readerTrxs[prev] :
                       doesSucceed(s, readerTrx, trx)

\* Transaction.Running.end, after trx.Private.end(trx)
Running_end_decide(s, trx) ==
    IF ~Ok(s) THEN s
    ELSE IF Running_mustFail(s, trx)
    THEN Failed_end(dispatch_fail(s, trx), trx)
    ELSE transit2(s, trx, "Ready")

\* Transaction.Running.end
Running_end(s, trx) == Running_end_decide(Private_end(s, trx), trx)

\* fail() with Prepared and Committed taking it as an abort.
dispatch_fail_public(s, trx) ==
    IF ~Ok(s) THEN s
    ELSE CASE s.status[trx] = "Running" -> transit2(s, trx, "Failed")
           [] s.status[trx] = "Failed" -> s
           [] s.status[trx] = "Ready" -> Public_cascadeAbort(s, trx)
           [] s.status[trx] \in {"Prepared", "Committed"} ->
                  transit2(s, trx, "Aborted")
           [] OTHER -> Raise(s, "AttributeError")

\* trx.fail(): Running.fail, Failed.fail, Ready.fail; no other status has it
dispatch_fail(s, trx) ==
    IF ~Ok(s) THEN s
    ELSE CASE s.status[trx] = "Running" -> transit2(s, trx, "Failed")
           [] s.status[trx] = "Failed" -> s
           [] s.status[trx] = "Ready" -> Public_cascadeAbort(s, trx)
           [] OTHER -> Raise(s, "AttributeError")

\* Transaction.Ready.enter, the loop failing the other candidates
Ready_fail_loop(s, cands) ==
    IF cands = {} \/ ~Ok(s) THEN s
    ELSE Ready_fail_loop(dispatch_fail(s, Min(cands)), cands \ {Min(cands)})

\* Transaction.Ready.enter, the loop making the readers precede trx
Ready_precedes_loop(s, trx, readers) ==
    IF readers = {} \/ ~Ok(s) THEN s
    ELSE Ready_precedes_loop(precedes(s, Min(readers), trx), trx,
                             readers \ {Min(readers)})

\* set.remove(x) on a version's candidateTrxs
removeCandidate(s, v, t) ==
    IF ~Ok(s) THEN s
    ELSE IF t \notin s.candidateTrxs[v] THEN Raise(s, "KeyError: candidateTrxs")
    ELSE [s EXCEPT !.candidateTrxs[v] = @ \ {t}]

\* Transaction.Ready.enter: for candidateTrx in supersededVersion.candidateTrxs
Ready_fail_candidates(s, v) ==
    IF ~Ok(s) THEN s ELSE Ready_fail_loop(s, s.candidateTrxs[v])

\* Transaction.Ready.enter: supersededVersion.candidateTrxs.clear()
Ready_clear_candidates(s, v) ==
    IF ~Ok(s) THEN s ELSE [s EXCEPT !.candidateTrxs[v] = {}]

\* Ready.enter that adds no edge from the readers of the superseded version.
Ready_precede_readers_none(s, trx, v) == s

\* Transaction.Ready.enter: for readerTrx in supersededVersion.readerTrxs
Ready_precede_readers(s, trx, v) ==
    IF ~Ok(s) THEN s ELSE Ready_precedes_loop(s, trx, s.readerTrxs[v])

\* Transaction.Ready.enter, the body of the loop over updateSet.items()
Ready_enter_page(s, trx, page, supersededVersion) ==
    IF supersededVersion = NoVer
    THEN [s EXCEPT !.latestVersion[page] = <<trx, page>>]
    ELSE Ready_precede_readers(
             Ready_clear_candidates(
                 Ready_fail_candidates(
                     removeCandidate(
                         removeReader(
                             [s EXCEPT !.latestVersion[page] = <<trx, page>>,
                                       !.supersederTrx[supersededVersion] = trx],
                             supersededVersion, trx),
                         supersededVersion, trx),
                     supersededVersion),
                 supersededVersion),
             trx, supersededVersion)

\* Transaction.Ready.enter, the loop over updateSet.items()
Ready_enter_loop(s, trx, pages) ==
    IF pages = {} \/ ~Ok(s) THEN s
    ELSE Ready_enter_loop(
             Ready_enter_page(s, trx, Min(pages),
                              s.prevPageVersion[<<trx, Min(pages)>>]),
             trx, pages \ {Min(pages)})

\* Ready.try2Transit that does not wait for the predecessors.
Ready_try2Transit_eager(s, trx) ==
    transit2([s EXCEPT !.obs.prepared = @ \cup
                 {<<trx, p>> : p \in {q \in s.prevTrxs[trx] :
                                         s.status[q] # "Committed"}}],
             trx, "Prepared")

\* Transaction.Ready.try2Transit
Ready_try2Transit(s, trx) ==
    IF \A prevTrx \in s.prevTrxs[trx] :
          s.status[prevTrx] \in {"Committed", "Failed"}
    THEN transit2([s EXCEPT !.obs.prepared = @ \cup
                      {<<trx, p>> : p \in {q \in s.prevTrxs[trx] :
                                              s.status[q] # "Committed"}}],
                  trx, "Prepared")
    ELSE s

\* Transaction.Ready.enter
Ready_enter(s, trx) ==
    try2Transit(
        Ready_enter_loop(s, trx, {p \in Pages : s.updateSet[trx][p] # NoVer}),
        trx)

\* voteYes that commits whatever the subclass and the transactionId.
voteYes_commits(s, trx) == transit2(s, trx, "Committed")

\* Transaction.voteYes, or the method that overrides it: the default asserts
\* transactionId is None and commits; the override leaves the decision to
\* the global coordinator.
voteYes(s, trx) ==
    IF trx \in s.overriding THEN s
    ELSE IF s.transactionId[trx] # NoId
    THEN Raise(s, "AssertionError: voteYes")
    ELSE transit2(s, trx, "Committed")

\* Transaction.removed, which prints the transaction; s.obs keeps what the
\* transaction looked like at that moment.
removed(s, trx) ==
    [s EXCEPT !.removedTrxs = @ \cup {trx},
              !.obs.removed = @ \cup
                  {[trx |-> trx,
                    status |-> s.status[trx],
                    nextTrxs |-> s.nextTrxs[trx],
                    pages |-> {p \in Pages : \/ s.readSet[trx][p] # NoVer
                                             \/ s.updateSet[trx][p] # NoVer},
                    prevs |-> {x \in AllTrx : trx \in s.nextTrxs[x]},
                    read |-> {v \in Versions : trx \in s.readerTrxs[v]},
                    written |-> {v \in Versions : s.writerTrx[v] = trx}]}]

\* Committed.try2Transit that does not look at readSet and updateSet.
Committed_try2Transit_noSets(s, trx) ==
    IF s.nextTrxs[trx] = {} THEN removed(s, trx) ELSE s

\* Transaction.Committed.try2Transit
Committed_try2Transit(s, trx) ==
    IF /\ s.nextTrxs[trx] = {}
       /\ \A p \in Pages : s.readSet[trx][p] = NoVer /\ s.updateSet[trx][p] = NoVer
    THEN removed(s, trx)
    ELSE s

\* prevTrx.nextTrxs.remove(trx)
removeNext(s, prevTrx, trx) ==
    IF ~Ok(s) THEN s
    ELSE IF trx \notin s.nextTrxs[prevTrx] THEN Raise(s, "KeyError: nextTrxs")
    ELSE [s EXCEPT !.nextTrxs[prevTrx] = @ \ {trx}]

\* A clear() that leaves the set as it is.
clearPrevTrxs_kept(s, trx) == s

\* trx.prevTrxs.clear()
clearPrevTrxs(s, trx) ==
    IF ~Ok(s) THEN s ELSE [s EXCEPT !.prevTrxs[trx] = {}]

\* Transaction.Committed.enter, the loop over prevTrxs
Committed_prev_loop(s, trx, prevs) ==
    IF prevs = {} \/ ~Ok(s) THEN s
    ELSE Committed_prev_loop(
             try2Transit(removeNext(s, Min(prevs), trx), Min(prevs)),
             trx, prevs \ {Min(prevs)})

\* del readerTrx.readSet[page]
delRead(s, readerTrx, page) ==
    IF s.readSet[readerTrx][page] = NoVer THEN Raise(s, "KeyError: readSet")
    ELSE [s EXCEPT !.readSet[readerTrx][page] = NoVer]

\* Transaction.Committed.enter, the body of the loop over the readers of the
\* superseded version
Committed_reader(s, page, prevPageVer, readerTrx) ==
    IF s.status[readerTrx] \in Private THEN s
    ELSE try2Transit(
             removeReader(delRead(s, readerTrx, page), prevPageVer, readerTrx),
             readerTrx)

\* Transaction.Committed.enter, the loop over list(prevPageVersion.readerTrxs)
Committed_reader_loop(s, page, prevPageVer, readers) ==
    IF readers = {} \/ ~Ok(s) THEN s
    ELSE Committed_reader_loop(
             Committed_reader(s, page, prevPageVer, Min(readers)),
             page, prevPageVer, readers \ {Min(readers)})

\* Transaction.Committed.enter: the assertion on the superseded version's
\* writer, and del writerTrx.updateSet[page]
Committed_unlink_writer(s, page, writer) ==
    IF writer = NoTrx THEN Raise(s, "AttributeError: None.status")
    ELSE IF s.status[writer] # "Committed"
    THEN Raise(s, "AssertionError: superseded writer committed")
    ELSE IF s.updateSet[writer][page] = NoVer
    THEN Raise(s, "KeyError: updateSet")
    ELSE [s EXCEPT !.updateSet[writer][page] = NoVer]

\* Transaction.Committed.enter: prevPageVersion.writerTrx = None
Committed_clear_writer(s, prevPageVer) ==
    IF ~Ok(s) THEN s ELSE [s EXCEPT !.writerTrx[prevPageVer] = NoTrx]

\* Transaction.Committed.enter: for readerTrx in list(...readerTrxs)
Committed_readers(s, page, prevPageVer) ==
    IF ~Ok(s) THEN s
    ELSE Committed_reader_loop(s, page, prevPageVer, s.readerTrxs[prevPageVer])

\* Transaction.Committed.enter: unlink from the public chain
Committed_unchain(s, pageVersion, prevPageVer) ==
    IF ~Ok(s) THEN s
    ELSE [s EXCEPT !.supersederTrx[prevPageVer] = NoTrx,
                   !.prevPageVersion[pageVersion] = NoVer]

\* Transaction.Committed.enter, the body of the loop over updateSet.items()
Committed_update(s, trx, page, prevPageVer) ==
    IF prevPageVer = NoVer THEN s
    ELSE try2Remove(
             Committed_unchain(
                 Committed_readers(
                     Committed_clear_writer(
                         try2Transit(
                             Committed_unlink_writer(s, page,
                                                     s.writerTrx[prevPageVer]),
                             s.writerTrx[prevPageVer]),
                         prevPageVer),
                     page, prevPageVer),
                 <<trx, page>>, prevPageVer),
             prevPageVer)

\* Transaction.Committed.enter, the loop over updateSet.items()
Committed_update_loop(s, trx, pages) ==
    IF pages = {} \/ ~Ok(s) THEN s
    ELSE Committed_update_loop(
             Committed_update(s, trx, Min(pages),
                              s.prevPageVersion[<<trx, Min(pages)>>]),
             trx, pages \ {Min(pages)})

\* Transaction.Committed.enter, the loop over list(nextTrxs)
Committed_next_loop(s, nexts) ==
    IF nexts = {} \/ ~Ok(s) THEN s
    ELSE LET nextTrx == Min(nexts)
         IN  Committed_next_loop(
                 IF s.status[nextTrx] = "Ready" THEN try2Transit(s, nextTrx)
                 ELSE s,
                 nexts \ {nextTrx})

\* The writers of the versions trx was given that are not Committed as trx
\* enters Committed (kept in s.obs).
Committed_observe(s, trx) ==
    [s EXCEPT !.obs.committed = @ \cup
        {<<trx, w>> : w \in {x \in AllTrx :
             /\ s.status[x] # "Committed"
             /\ \E p \in Pages : s.bound[trx][p] = <<x, p>>}}]

\* Transaction.Committed.enter: for prevTrx in trx.prevTrxs
Committed_prevs(s, trx) == Committed_prev_loop(s, trx, s.prevTrxs[trx])

\* Transaction.Committed.enter: for page, pageVersion in updateSet.items()
Committed_updates(s, trx) ==
    IF ~Ok(s) THEN s
    ELSE Committed_update_loop(
             s, trx, {p \in Pages : s.updateSet[trx][p] # NoVer})

\* Transaction.Committed.enter: for nextTrx in list(trx.nextTrxs)
Committed_kick(s, trx) ==
    IF ~Ok(s) THEN s ELSE Committed_next_loop(s, s.nextTrxs[trx])

\* Transaction.Committed.enter
Committed_enter(s, trx) ==
    Committed_kick(
        Committed_updates(
            clearPrevTrxs(Committed_prevs(Committed_observe(s, trx), trx), trx),
            trx),
        trx)

\* Transaction.Aborted.enter, the body of the loop over updateSet.items()
Aborted_enter_page(s, trx, page, prevPageVer) ==
    IF prevPageVer = NoVer
    THEN Raise(s, "AttributeError: None.supersederTrx")
    ELSE [s EXCEPT !.readerTrxs[prevPageVer] =
                       IF s.supersederTrx[prevPageVer] = trx
                       THEN @ \cup {trx} ELSE @,
                   !.supersederTrx[prevPageVer] =
                       IF @ = trx THEN NoTrx ELSE @,
                   !.latestVersion[page] =
                       IF @ = <<trx, page>> THEN prevPageVer ELSE @]

\* Transaction.Aborted.enter, the loop over updateSet.items()
Aborted_enter_loop(s, trx, pages) ==
    IF pages = {} \/ ~Ok(s) THEN s
    ELSE Aborted_enter_loop(
             Aborted_enter_page(s, trx, Min(pages),
                                s.prevPageVersion[<<trx, Min(pages)>>]),
             trx, pages \ {Min(pages)})

\* Transaction.Aborted.enter
Aborted_enter(s, trx) ==
    try2Transit(
        Aborted_enter_loop(s, trx, {p \in Pages : s.updateSet[trx][p] # NoVer}),
        trx)

\* Transaction.Aborted.try2Transit, the loop over prevTrxs
Aborted_prev_loop(s, trx, prevs) ==
    IF prevs = {} \/ ~Ok(s) THEN s
    ELSE Aborted_prev_loop(
             try2Transit(removeNext(s, Min(prevs), trx), Min(prevs)),
             trx, prevs \ {Min(prevs)})

\* Transaction.Aborted.try2Transit: the superseded version loses the reader
Aborted_unread(s, trx, pageVersion) ==
    IF ~Ok(s) THEN s
    ELSE try2Remove(removeReader(s, s.prevPageVersion[pageVersion], trx),
                    s.prevPageVersion[pageVersion])

\* Transaction.Aborted.try2Transit, the body of the loop over updateSet.values()
Aborted_update(s, trx, pageVersion) ==
    Aborted_unread(
        try2Remove([s EXCEPT !.writerTrx[pageVersion] = NoTrx], pageVersion),
        trx, pageVersion)

\* Transaction.Aborted.try2Transit, the loop over updateSet.values()
Aborted_update_loop(s, trx, pages) ==
    IF pages = {} \/ ~Ok(s) THEN s
    ELSE Aborted_update_loop(Aborted_update(s, trx, <<trx, Min(pages)>>),
                             trx, pages \ {Min(pages)})

\* Transaction.Aborted.try2Transit, the loop over readSet.values()
Aborted_read_loop(s, trx, pages) ==
    IF pages = {} \/ ~Ok(s) THEN s
    ELSE Aborted_read_loop(
             try2Remove(removeReader(s, s.readSet[trx][Min(pages)], trx),
                        s.readSet[trx][Min(pages)]),
             trx, pages \ {Min(pages)})

\* Transaction.Aborted.try2Transit: for pageVersion in updateSet.values()
Aborted_updates(s, trx) ==
    IF ~Ok(s) THEN s
    ELSE Aborted_update_loop(
             s, trx, {p \in Pages : s.updateSet[trx][p] # NoVer})

\* trx.updateSet.clear()
clearUpdateSet(s, trx) ==
    IF ~Ok(s) THEN s ELSE [s EXCEPT !.updateSet[trx] = [p \in Pages |-> NoVer]]

\* Transaction.Aborted.try2Transit: for pageVersion in readSet.values()
Aborted_reads(s, trx) ==
    IF ~Ok(s) THEN s
    ELSE Aborted_read_loop(s, trx, {p \in Pages : s.readSet[trx][p] # NoVer})

\* Transaction.Aborted.try2Transit: trx.readSet.clear(); trx.removed()
Aborted_removed(s, trx) ==
    IF ~Ok(s) THEN s
    ELSE removed([s EXCEPT !.readSet[trx] = [p \in Pages |-> NoVer]], trx)

\* Transaction.Aborted.try2Transit
Aborted_try2Transit(s, trx) ==
    IF s.nextTrxs[trx] # {} THEN s
    ELSE Aborted_removed(
             Aborted_reads(
                 clearUpdateSet(
                     Aborted_updates(
                         clearPrevTrxs(
                             Aborted_prev_loop(s, trx, s.prevTrxs[trx]), trx),
                         trx),
                     trx),
                 trx),
             trx)

\* trx.status.try2Transit(trx); Status.try2Transit is pass
try2Transit(s, trx) ==
    IF ~Ok(s) THEN s
    ELSE CASE s.status[trx] = "Ready" -> Ready_try2Transit(s, trx)
           [] s.status[trx] = "Committed" -> Committed_try2Transit(s, trx)
           [] s.status[trx] = "Aborted" -> Aborted_try2Transit(s, trx)
           [] OTHER -> s

\* trx.status.enter(trx); Status.enter is try2Transit
enter(s, trx) ==
    CASE s.status[trx] = "Ready" -> Ready_enter(s, trx)
      [] s.status[trx] = "Prepared" -> voteYes(s, trx)
      [] s.status[trx] = "Committed" -> Committed_enter(s, trx)
      [] s.status[trx] = "Aborted" -> Aborted_enter(s, trx)
      [] OTHER -> try2Transit(s, trx)

\* Transaction.transit2
transit2(s, trx, newStatus) ==
    IF ~Ok(s) THEN s
    ELSE enter([s EXCEPT !.status[trx] = newStatus,
                         !.obs.entered = Append(@, <<trx, newStatus>>),
                         !.obs.moves = @ \cup
                             {<<trx, s.status[trx], newStatus>>}],
               trx)

\* readPage() honoured in every status.
dispatch_readPage_anyStatus(s, trx, page) == Private_readPage(s, trx, page)

\* dispatch('readPage'): Private.readPage for Running and Failed
dispatch_readPage(s, trx, page) ==
    IF s.status[trx] \in Private THEN Private_readPage(s, trx, page)
    ELSE Raise(s, "AttributeError")

\* dispatch('updatePage'): Private.updatePage for Running and Failed
dispatch_updatePage(s, trx, page) ==
    IF s.status[trx] \in Private THEN Private_updatePage(s, trx, page)
    ELSE Raise(s, "AttributeError")

\* end() returning the status of a transaction that has ended before.
dispatch_end_again(s, trx) ==
    CASE s.status[trx] = "Running" -> Running_end(s, trx)
      [] s.status[trx] = "Failed" -> Failed_end(s, trx)
      [] OTHER -> s

\* dispatch('end'): Running.end, Failed.end; the status returned is the one
\* the call leaves
dispatch_end(s, trx) ==
    CASE s.status[trx] = "Running" -> Running_end(s, trx)
      [] s.status[trx] = "Failed" -> Failed_end(s, trx)
      [] OTHER -> Raise(s, "AttributeError")

\* abort() taken by every public status, and moving straight to Aborted.
dispatch_abort_public(s, trx) ==
    IF s.status[trx] \in Public THEN transit2(s, trx, "Aborted")
    ELSE Raise(s, "AttributeError")

\* dispatch('abort'): Prepared.abort
dispatch_abort(s, trx) ==
    IF s.status[trx] = "Prepared" THEN Public_cascadeAbort(s, trx)
    ELSE Raise(s, "AttributeError")

\* commit() without the check of the transactionId.
dispatch_commit_anyId(s, trx) ==
    IF s.status[trx] # "Prepared" THEN Raise(s, "AttributeError")
    ELSE transit2(s, trx, "Committed")

\* dispatch('commit'): Prepared.commit
dispatch_commit(s, trx) ==
    IF s.status[trx] # "Prepared" THEN Raise(s, "AttributeError")
    ELSE IF s.transactionId[trx] = NoId THEN Raise(s, "ProtocolError")
    ELSE transit2(s, trx, "Committed")

\* Transaction.__init__ for every transaction, then the body of the loop of
\* PagePool.__init__ run by the transaction Boot: Page.__init__ makes the
\* first version of each page, which Boot then also reads.
Constructed(ids, over) ==
    [transactionId |-> ids,
     overriding |-> over,
     status |-> [t \in AllTrx |-> "Running"],
     readSet |-> [t \in AllTrx |-> [p \in Pages |->
                     IF t = Boot THEN <<Boot, p>> ELSE NoVer]],
     updateSet |-> [t \in AllTrx |-> [p \in Pages |->
                     IF t = Boot THEN <<Boot, p>> ELSE NoVer]],
     prevTrxs |-> [t \in AllTrx |-> {}],
     nextTrxs |-> [t \in AllTrx |-> {}],
     latestVersion |-> [p \in Pages |-> <<Boot, p>>],
     vpage |-> [v \in Versions |-> IF v[1] = Boot THEN v[2] ELSE NoPage],
     writerTrx |-> [v \in Versions |-> IF v[1] = Boot THEN Boot ELSE NoTrx],
     readerTrxs |-> [v \in Versions |-> IF v[1] = Boot THEN {Boot} ELSE {}],
     prevPageVersion |-> [v \in Versions |-> NoVer],
     candidateTrxs |-> [v \in Versions |-> {}],
     supersederTrx |-> [v \in Versions |-> NoTrx],
     removedTrxs |-> {},
     bound |-> [t \in AllTrx |-> [p \in Pages |-> NoVer]],
     created |-> {v \in Versions : v[1] = Boot},
     err |-> "none", ret |-> <<>>, obs |-> NoObs]

\* PagePool.__init__: Transaction.atomic() ends Boot when the body is done
PagePool(ids, over) == Running_end(Constructed(ids, over), Boot)

\* The state a call leaves behind.
Install(s) ==
    /\ transactionId' = s.transactionId
    /\ overriding' = s.overriding
    /\ status' = s.status
    /\ readSet' = s.readSet
    /\ updateSet' = s.updateSet
    /\ prevTrxs' = s.prevTrxs
    /\ nextTrxs' = s.nextTrxs
    /\ latestVersion' = s.latestVersion
    /\ vpage' = s.vpage
    /\ writerTrx' = s.writerTrx
    /\ readerTrxs' = s.readerTrxs
    /\ prevPageVersion' = s.prevPageVersion
    /\ candidateTrxs' = s.candidateTrxs
    /\ supersederTrx' = s.supersederTrx
    /\ removedTrxs' = s.removedTrxs
    /\ bound' = s.bound
    /\ created' = s.created

\* The state after construction.
IsState(s) ==
    /\ transactionId = s.transactionId
    /\ overriding = s.overriding
    /\ status = s.status
    /\ readSet = s.readSet
    /\ updateSet = s.updateSet
    /\ prevTrxs = s.prevTrxs
    /\ nextTrxs = s.nextTrxs
    /\ latestVersion = s.latestVersion
    /\ vpage = s.vpage
    /\ writerTrx = s.writerTrx
    /\ readerTrxs = s.readerTrxs
    /\ prevPageVersion = s.prevPageVersion
    /\ candidateTrxs = s.candidateTrxs
    /\ supersederTrx = s.supersederTrx
    /\ removedTrxs = s.removedTrxs
    /\ bound = s.bound
    /\ created = s.created

\* The transactions are constructed with or without a transactionId; those
\* with one are of a subclass that overrides voteYes (as its docstring
\* requires), and a transaction without one may be of such a subclass too.
Init ==
    \E ids \in [AllTrx -> {NoId} \cup Trx], over \in SUBSET Trx :
       /\ ids[Boot] = NoId
       /\ \A t \in Trx : ids[t] \in {NoId, t}
       /\ \A t \in Trx : ids[t] # NoId => t \in over
       /\ Cardinality(over) <= MaxDist
       /\ IsState(PagePool(ids, over))

\* The pages resolved so far, and whether a call may resolve one more.
NumResolved ==
    Cardinality({x \in Trx \X Pages : bound[x[1]][x[2]] # NoVer})
MayAccess(trx, page) ==
    ~(/\ status[trx] \in Private
      /\ bound[trx][page] = NoVer
      /\ NumResolved >= MaxAccess)

ReadPage(trx, page) ==
    /\ MayAccess(trx, page)
    /\ Install(dispatch_readPage(Cur, trx, page))

UpdatePage(trx, page) ==
    /\ MayAccess(trx, page)
    /\ Install(dispatch_updatePage(Cur, trx, page))

End(trx) == Install(dispatch_end(Cur, trx))

Fail(trx) == Install(dispatch_fail(Cur, trx))

Abort(trx) == Install(dispatch_abort(Cur, trx))

Commit(trx) == Install(dispatch_commit(Cur, trx))

Next ==
    \/ \E trx \in Trx, page \in Pages : ReadPage(trx, page)
    \/ \E trx \in Trx, page \in Pages : UpdatePage(trx, page)
    \/ \E trx \in Trx : End(trx)
    \/ \E trx \in Trx : Fail(trx)
    \/ \E trx \in Trx : Abort(trx)
    \/ \E trx \in Trx : Commit(trx)

Spec == Init /\ [][Next]_vars

(***************************************************************************)
(* The coordinator calls of one transaction, <<methodName, trx, page>>,    *)
(* and Transaction.dispatch: dispatch(Cur, call) is what the call does in  *)
(* the current state.                                                      *)
(***************************************************************************)
Calls ==
    ({"readPage", "updatePage"} \X Trx \X Pages)
        \cup ({"end", "fail", "abort", "commit"} \X Trx \X {NoPage})

dispatch(s, call) ==
    CASE call[1] = "readPage" -> dispatch_readPage(s, call[2], call[3])
      [] call[1] = "updatePage" -> dispatch_updatePage(s, call[2], call[3])
      [] call[1] = "end" -> dispatch_end(s, call[2])
      [] call[1] = "fail" -> dispatch_fail(s, call[2])
      [] call[1] = "abort" -> dispatch_abort(s, call[2])
      [] call[1] = "commit" -> dispatch_commit(s, call[2])

(***************************************************************************)
(* Vocabulary of the properties.                                           *)
(***************************************************************************)
CommittedTrxs == {t \in AllTrx : status[t] = "Committed"}

\* The version a version was made from (the pool's versions: none).
InitOf(v) == IF v = NoVer \/ v[1] = Boot THEN NoVer ELSE bound[v[1]][v[2]]

\* v is a proper ancestor of w in the history of their page.
RECURSIVE IsOlder(_, _, _)
IsOlder(v, w, n) ==
    /\ n > 0
    /\ InitOf(w) # NoVer
    /\ (InitOf(w) = v \/ IsOlder(v, InitOf(w), n - 1))

\* a precedes b by what they accessed: b was given a version a wrote, or b
\* made the version that supersedes one a was given.
Conflict(a, b) ==
    /\ a # b
    /\ \E p \in Pages :
          \/ bound[b][p] = <<a, p>>
          \/ /\ bound[a][p] # NoVer
             /\ <<b, p>> \in created
             /\ InitOf(<<b, p>>) = bound[a][p]

\* A path of at most n edges of E from a to b.
RECURSIVE PathIn(_, _, _, _)
PathIn(E, a, b, n) ==
    /\ n > 0
    /\ \/ <<a, b>> \in E
       \/ \E x \in AllTrx : <<a, x>> \in E /\ PathIn(E, x, b, n - 1)

Cyclic(E) == \E a \in AllTrx : PathIn(E, a, a, MaxTrx + 1)

PrevEdges == {e \in AllTrx \X AllTrx : e[1] \in prevTrxs[e[2]]}
NextEdges == {e \in AllTrx \X AllTrx : e[2] \in nextTrxs[e[1]]}

C2_AcyclicGraph ==
    /\ ~Cyclic(PrevEdges)
    /\ ~Cyclic(NextEdges)
    /\ \A call \in Calls :
          dispatch(Cur, call).err # "AssertionError: _precedes"

\* a and b each read what the other superseded; b went public first, so a
\* precedes b, and a's end() aborted it instead of adding the edge back.
C2_Witness ==
    \E a, b \in Trx :
       /\ Conflict(a, b) /\ Conflict(b, a)
       /\ a \in prevTrxs[b]
       /\ status[a] = "Aborted" /\ status[b] = "Ready"

\* C3: a Committed transaction stays Committed in every later call.
C3_CommittedIsFinal ==
    [][\A t \in AllTrx :
          status[t] = "Committed" => status'[t] = "Committed"]_vars

\* A user transaction is Committed, and a reader of one of its versions has
\* since ended as Aborted.
C3_Witness ==
    \E t, u \in Trx, p \in Pages :
       /\ status[t] = "Committed"
       /\ bound[u][p] = <<t, p>>
       /\ status[u] = "Aborted"

\* C4: recoverability: when a transaction enters Committed, the writer of
\* every version it was given is Committed, in whatever call it happens.
C4_Recoverable ==
    /\ \A call \in Calls : dispatch(Cur, call).obs.committed = {}
    /\ \A t \in CommittedTrxs, p \in Pages :
          bound[t][p] # NoVer => status[bound[t][p][1]] = "Committed"

\* A transaction committed after reading the version of a distributed
\* transaction, which is committed by the global coordinator only.
C4_Witness ==
    \E t, w \in Trx, p \in Pages :
       /\ status[t] = "Committed"
       /\ bound[t][p] = <<w, p>>
       /\ transactionId[w] # NoId

\* C5: isolation: a version resolved for a private transaction was written
\* by another transaction that is public at that moment, and no transaction
\* is ever bound to a version whose writer is Running or Failed.
C5_Isolated ==
    /\ \A call \in Calls :
          \A r \in dispatch(Cur, call).obs.resolved :
             /\ writerTrx[r[3]] \notin {NoTrx, r[1]}
             /\ status[writerTrx[r[3]]] \in Public
    /\ \A t \in Trx, p \in Pages :
          bound[t][p] # NoVer =>
             bound[t][p][1] # t /\ status[bound[t][p][1]] \notin Private

\* A transaction was given the version of a writer that is public but not
\* committed, while another transaction has a private version of the page.
C5_Witness ==
    \E t, w, u \in Trx, p \in Pages :
       /\ bound[t][p] = <<w, p>>
       /\ status[w] \in {"Ready", "Prepared"}
       /\ u # t
       /\ updateSet[u][p] = <<u, p>>
       /\ status[u] = "Running"

\* C6: atomicity: no transaction T, failed ones included, is bound to W's
\* version of a page P (or a later one) and also to a version of a page Q
\* older than W's version of Q.
C6_Atomic ==
    \A T, W \in Trx, P, Q \in Pages :
       (/\ T # W
        /\ <<W, P>> \in created /\ <<W, Q>> \in created
        /\ bound[T][P] # NoVer /\ bound[T][Q] # NoVer)
       => ~(/\ bound[T][P] = <<W, P>>
               \/ IsOlder(<<W, P>>, bound[T][P], MaxTrx)
            /\ IsOlder(bound[T][Q], <<W, Q>>, MaxTrx))

\* C7: linear page history: no two versions whose writers are public
\* supersede the same version.
C7_LinearHistory ==
    \A v, w \in created :
       (/\ v # w
        /\ writerTrx[v] # NoTrx /\ writerTrx[w] # NoTrx
        /\ status[writerTrx[v]] \in Public
        /\ status[writerTrx[w]] \in Public
        /\ prevPageVersion[v] # NoVer)
       => prevPageVersion[v] # prevPageVersion[w]

\* C8: commitment order: in whatever call a transaction enters Prepared,
\* every transaction in its prevTrxs is Committed at that moment.
C8_PreparedAfterCommitted ==
    [][\A call \in Calls :
          Install(dispatch(Cur, call)) =>
             dispatch(Cur, call).obs.prepared = {}]_vars

\* The versions of a page from v back along prevPageVersion, at most n.
RECURSIVE ChainFrom(_, _)
ChainFrom(v, n) ==
    IF v = NoVer \/ n = 0 THEN <<>>
    ELSE <<v>> \o ChainFrom(prevPageVersion[v], n - 1)

Chain(p) == ChainFrom(latestVersion[p], MaxTrx + 1)

\* w succeeds t in the live precedence graph.
Succeeds(w, t) == PathIn(PrevEdges, t, w, MaxTrx + 1)

\* The places of Chain(p) whose writer does not succeed t.
Suitable(p, t) ==
    {i \in 1..Len(Chain(p)) :
        /\ writerTrx[Chain(p)[i]] # NoTrx
        /\ ~Succeeds(writerTrx[Chain(p)[i]], t)}

\* t has neither read nor updated p.
Fresh(t, p) == readSet[t][p] = NoVer /\ updateSet[t][p] = NoVer

C10_PreparedLeavesByOwnDecision ==
    \A t \in Trx :
       status[t] = "Prepared" =>
          /\ t \in overriding
          /\ ~Ok(dispatch_fail(Cur, t))
          /\ \A call \in Calls :
                LET after == dispatch(Cur, call).status[t]
                IN  after # "Prepared" =>
                       \/ call = <<"commit", t, NoPage>> /\ after = "Committed"
                       \/ call = <<"abort", t, NoPage>> /\ after = "Aborted"

\* A transaction is Prepared, and a reader of one of its versions has ended
\* and waits in Ready.
C10_Witness ==
    \E t, u \in Trx, p \in Pages :
       /\ status[t] = "Prepared"
       /\ bound[u][p] = <<t, p>>
       /\ status[u] = "Ready"

\* C11: commit() moves a transaction to Committed when, and only when, it is
\* Prepared with a transactionId; on a Prepared transaction without one it
\* raises ProtocolError; commit() and abort() in any other status raise; and
\* every one of these rejected calls leaves the whole state as it was.
C11_CommitAbortContract ==
    \A t \in Trx :
       /\ (status[t] = "Prepared" /\ transactionId[t] # NoId)
             => dispatch_commit(Cur, t).status[t] = "Committed"
       /\ (status[t] # "Committed"
              /\ dispatch_commit(Cur, t).status[t] = "Committed")
             => status[t] = "Prepared" /\ transactionId[t] # NoId
       /\ (status[t] = "Prepared" /\ transactionId[t] = NoId)
             => /\ dispatch_commit(Cur, t).err = "ProtocolError"
                /\ IsState(dispatch_commit(Cur, t))
       /\ status[t] # "Prepared"
             => /\ ~Ok(dispatch_commit(Cur, t))
                /\ IsState(dispatch_commit(Cur, t))
                /\ ~Ok(dispatch_abort(Cur, t))
                /\ IsState(dispatch_abort(Cur, t))

\* A transaction without a transactionId rests in Prepared (its voteYes is
\* overridden) with a reader of its version waiting in Ready, and commit()
\* on it is refused.
C11_Witness ==
    \E t, u \in Trx, p \in Pages :
       /\ status[t] = "Prepared"
       /\ transactionId[t] = NoId
       /\ bound[u][p] = <<t, p>>
       /\ status[u] = "Ready"
       /\ dispatch_commit(Cur, t).err = "ProtocolError"

\* C12: readPage and updatePage of a transaction that is Ready, Prepared,
\* Committed or Aborted raise and leave the whole state as it was.
C12_AccessRejectedWhenNotPrivate ==
    \A t \in Trx, p \in Pages :
       status[t] \notin Private =>
          /\ ~Ok(dispatch_readPage(Cur, t, p))
          /\ IsState(dispatch_readPage(Cur, t, p))
          /\ ~Ok(dispatch_updatePage(Cur, t, p))
          /\ IsState(dispatch_updatePage(Cur, t, p))

\* A Ready transaction and a Prepared one, each with a page it has not
\* accessed, and readPage of it is refused.
C12_Witness ==
    \E t, u \in Trx, p, q \in Pages :
       /\ status[t] = "Ready" /\ status[u] = "Prepared"
       /\ bound[t][p] = NoVer /\ bound[u][q] = NoVer
       /\ ~Ok(dispatch_readPage(Cur, t, p))
       /\ ~Ok(dispatch_updatePage(Cur, u, q))

ReadOnlyOfCommitted(t) ==
    /\ status[t] = "Running"
    /\ t \notin overriding /\ transactionId[t] = NoId
    /\ \A p \in Pages :
          /\ <<t, p>> \notin created
          /\ bound[t][p] # NoVer => status[bound[t][p][1]] = "Committed"

\* C14: a read of a local transaction that has only read versions of
\* Committed writers, when it is given one more such version, adds no edge
\* to the precedence graph; and the end() of such a transaction leaves it
\* Committed and adds no edge either.
C14_ReadOnlyAddsNoEdge ==
    [][\A t \in Trx :
          ReadOnlyOfCommitted(t) =>
             /\ \A p \in Pages :
                   (/\ Install(dispatch_readPage(Cur, t, p))
                    /\ Ok(dispatch_readPage(Cur, t, p))
                    /\ status[dispatch_readPage(Cur, t, p).ret[1][1]]
                          = "Committed")
                   => prevTrxs' = prevTrxs /\ nextTrxs' = nextTrxs
             /\ Install(dispatch_end(Cur, t))
                   => /\ status'[t] = "Committed"
                      /\ \A x \in AllTrx :
                            /\ prevTrxs'[x] \subseteq prevTrxs[x]
                            /\ nextTrxs'[x] \subseteq nextTrxs[x]]_vars

\* t has made no call yet.
IsNew(t) ==
    /\ status[t] = "Running"
    /\ prevTrxs[t] = {} /\ nextTrxs[t] = {}
    /\ \A p \in Pages : bound[t][p] = NoVer /\ <<t, p>> \notin created

\* S1 so far: t1 was given the pool's version of p, updated p and is
\* Committed; t2, a local transaction, and every other one are new.
Sequential(t1, t2, p) ==
    /\ t1 # t2
    /\ status[t1] = "Committed"
    /\ bound[t1][p] = <<Boot, p>> /\ <<t1, p>> \in created
    /\ t2 \notin overriding
    /\ \A x \in Trx \ {t1} : IsNew(x)

\* S2 so far: t1 and t2 read the pool's version of p and made no other
\* call, t1 has ended and is Committed, t2, a local transaction, is
\* Running; every other transaction is new.
ConcurrentReaders(t1, t2, p) ==
    /\ t1 # t2
    /\ status[t1] = "Committed" /\ status[t2] = "Running"
    /\ t2 \notin overriding
    /\ \A x \in {t1, t2}, q \in Pages :
          /\ <<x, q>> \notin created
          /\ bound[x][q] = IF q = p THEN <<Boot, p>> ELSE NoVer
    /\ \A x \in Trx \ {t1, t2} : IsNew(x)

\* C15 as stated: in S1, t2 reads p, is given t1's version and its end()
\* leaves it Committed, and t1 is removed after its end() and t2 after its
\* own.
C15_SequentialRemoved ==
    \A t1, t2 \in Trx, p \in Pages :
       Sequential(t1, t2, p) =>
          /\ dispatch_readPage(Cur, t2, p).ret = << <<t1, p>> >>
          /\ dispatch_end(dispatch_readPage(Cur, t2, p), t2).status[t2]
                = "Committed"
          /\ t1 \in removedTrxs
          /\ t2 \in dispatch_end(dispatch_readPage(Cur, t2, p), t2).removedTrxs

\* C15, amended: in S1, t2 reads p, is given t1's version and its end()
\* returns with t2 Committed; but t1 is not removed when its end() has
\* returned, nor is t2 after its own; and in S2 the end() of t2 leaves it
\* Committed and neither reader is removed.
C15_SequentialNotRemoved ==
    /\ \A t1, t2 \in Trx, p \in Pages :
          Sequential(t1, t2, p) =>
             /\ dispatch_readPage(Cur, t2, p).ret = << <<t1, p>> >>
             /\ Ok(dispatch_end(dispatch_readPage(Cur, t2, p), t2))
             /\ dispatch_end(dispatch_readPage(Cur, t2, p), t2).status[t2]
                   = "Committed"
             /\ t1 \notin removedTrxs
             /\ dispatch_end(dispatch_readPage(Cur, t2, p), t2).removedTrxs
                   \cap {t1, t2} = {}
    /\ \A t1, t2 \in Trx, p \in Pages :
          ConcurrentReaders(t1, t2, p) =>
             /\ Ok(dispatch_end(Cur, t2))
             /\ dispatch_end(Cur, t2).status[t2] = "Committed"
             /\ t1 \notin removedTrxs
             /\ dispatch_end(Cur, t2).removedTrxs \cap {t1, t2} = {}

\* S1 after the end() of t1, before t2 reads: t1 still holds its version.
C15_Witness ==
    \E t1, t2 \in Trx, p \in Pages :
       /\ Sequential(t1, t2, p)
       /\ readSet[t1][p] = NoVer /\ updateSet[t1][p] = <<t1, p>>
       /\ latestVersion[p] = <<t1, p>>
       /\ t1 \notin removedTrxs

\* The accesses of S4, made by local transactions and no others: T1 updated
\* P0; T2 read P0 and updated P1; T3 read P1.  T1 was private all along, so
\* T2 was given the pool's version of P0, and T3 the pool's version of P1.
CascadeAccesses(T1, T2, T3, P0, P1) ==
    /\ Cardinality({T1, T2, T3}) = 3 /\ P0 # P1
    /\ overriding \cap {T1, T2, T3} = {}
    /\ created \cap (Trx \X Pages) = {<<T1, P0>>, <<T2, P1>>}
    /\ bound[T1][P0] = <<Boot, P0>> /\ bound[T1][P1] = NoVer
    /\ bound[T2][P0] = <<Boot, P0>> /\ bound[T2][P1] = <<Boot, P1>>
    /\ bound[T3][P0] = NoVer /\ bound[T3][P1] = <<Boot, P1>>
    /\ \A x \in Trx \ {T1, T2, T3} : IsNew(x)

\* S4 before T1.fail(): the three transactions are Running.
Cascade(T1, T2, T3, P0, P1) ==
    /\ CascadeAccesses(T1, T2, T3, P0, P1)
    /\ \A x \in {T1, T2, T3} : status[x] = "Running"

\* S4 from there: T1.fail(); T1.end(); T2.end(); T3.end()
S4_T1_end(T1) == dispatch_end(dispatch_fail(Cur, T1), T1)
S4_T2_end(T1, T2) == dispatch_end(S4_T1_end(T1), T2)
S4_T3_end(T1, T2, T3) == dispatch_end(S4_T2_end(T1, T2), T3)

\* C16 as stated: T1.end() returns Aborted, T2 and T3 are then Failed and
\* their end() return Aborted, and latestVersion is what it was.
C16_CascadeFails ==
    \A T1, T2, T3 \in Trx, P0, P1 \in Pages :
       Cascade(T1, T2, T3, P0, P1) =>
          /\ S4_T1_end(T1).status[T1] = "Aborted"
          /\ S4_T1_end(T1).status[T2] = "Failed"
          /\ S4_T1_end(T1).status[T3] = "Failed"
          /\ S4_T2_end(T1, T2).status[T2] = "Aborted"
          /\ S4_T3_end(T1, T2, T3).status[T3] = "Aborted"
          /\ S4_T3_end(T1, T2, T3).latestVersion = latestVersion

\* C16, amended: T1.end() returns Aborted and changes the status of no other
\* transaction and no latestVersion: T2 and T3 were never given a version
\* of T1 and stay Running.  T2.end() leaves T2 Ready, behind T3, which read
\* the version of P1 that T2 supersedes; T3.end() leaves T3 and T2
\* Committed, and T2's version is the latest of P1.
C16_NoCascadeFromPrivate ==
    \A T1, T2, T3 \in Trx, P0, P1 \in Pages :
       Cascade(T1, T2, T3, P0, P1) =>
          /\ Ok(S4_T3_end(T1, T2, T3))
          /\ S4_T1_end(T1).status
                = [status EXCEPT ![T1] = "Aborted"]
          /\ S4_T1_end(T1).latestVersion = latestVersion
          /\ latestVersion = [p \in Pages |-> <<Boot, p>>]
          /\ S4_T2_end(T1, T2).status[T2] = "Ready"
          /\ S4_T3_end(T1, T2, T3).status[T3] = "Committed"
          /\ S4_T3_end(T1, T2, T3).status[T2] = "Committed"
          /\ S4_T3_end(T1, T2, T3).latestVersion
                = [latestVersion EXCEPT ![P1] = <<T2, P1>>]

\* S4 after T1.fail() and T1.end(): T1 is Aborted, T2 and T3 are Running.
C16_Witness ==
    \E T1, T2, T3 \in Trx, P0, P1 \in Pages :
       /\ CascadeAccesses(T1, T2, T3, P0, P1)
       /\ status[T1] = "Aborted"
       /\ status[T2] = "Running" /\ status[T3] = "Running"

\* S5 before T1.end(): T1, distributed, has updated P from the pool's
\* version and is Running; T2 is local; T2 and every other one are new.
PreparedPath(T1, T2, P) ==
    /\ T1 # T2
    /\ status[T1] = "Running"
    /\ T1 \in overriding /\ transactionId[T1] # NoId
    /\ T2 \notin overriding
    /\ created \cap (Trx \X Pages) = {<<T1, P>>}
    /\ \A q \in Pages :
          bound[T1][q] = IF q = P THEN <<Boot, P>> ELSE NoVer
    /\ \A x \in Trx \ {T1} : IsNew(x)

\* S5 from there: T1.end(); T2.readPage(P); T1.commit(); T2.end()
S5_T1_end(T1) == dispatch_end(Cur, T1)
S5_T2_read(T1, T2, P) == dispatch_readPage(S5_T1_end(T1), T2, P)
S5_T1_commit(T1, T2, P) == dispatch_commit(S5_T2_read(T1, T2, P), T1)
S5_T2_end(T1, T2, P) == dispatch_end(S5_T1_commit(T1, T2, P), T2)

\* C17: in S5 the end() of T1 leaves it Prepared, T2 is then given T1's
\* version, commit() makes T1 Committed, and the end() of T2 returns with
\* T2 Committed; no call of the four raises.
C17_PreparedPath ==
    \A T1, T2 \in Trx, P \in Pages :
       PreparedPath(T1, T2, P) =>
          /\ S5_T1_end(T1).status[T1] = "Prepared"
          /\ S5_T2_read(T1, T2, P).ret = << <<T1, P>> >>
          /\ S5_T2_read(T1, T2, P).status[T1] = "Prepared"
          /\ S5_T1_commit(T1, T2, P).status[T1] = "Committed"
          /\ S5_T1_commit(T1, T2, P).status[T2] = "Running"
          /\ S5_T2_end(T1, T2, P).status[T2] = "Committed"
          /\ Ok(S5_T2_end(T1, T2, P))

\* S5 after T2's read: T1 rests in Prepared and T2 holds T1's version.
C17_Witness ==
    \E T1, T2 \in Trx, P \in Pages :
       /\ T1 # T2
       /\ status[T1] = "Prepared" /\ transactionId[T1] # NoId
       /\ created \cap (Trx \X Pages) = {<<T1, P>>}
       /\ status[T2] = "Running" /\ T2 \notin overriding
       /\ readSet[T2][P] = <<T1, P>>

\* S6 before the end() calls: T1 updated P0 and read P1, T2 updated P1 and
\* read P0, each was given the pool's versions (the other's version being
\* private), both are local and Running, every other transaction is new.
CycleAvoidance(T1, T2, P0, P1) ==
    /\ T1 # T2 /\ P0 # P1
    /\ status[T1] = "Running" /\ status[T2] = "Running"
    /\ overriding \cap {T1, T2} = {}
    /\ created \cap (Trx \X Pages) = {<<T1, P0>>, <<T2, P1>>}
    /\ \A x \in {T1, T2}, q \in {P0, P1} : bound[x][q] = <<Boot, q>>
    /\ \A x \in Trx \ {T1, T2} : IsNew(x)

\* S6 from there: T1.end(); T2.end()
S6_T1_end(T1) == dispatch_end(Cur, T1)
S6_T2_end(T1, T2) == dispatch_end(S6_T1_end(T1), T2)

\* C18 as stated: T1.end() adds the edge T2 precedes T1, and after T2.end()
\* both T1 and T2 are Committed.
C18_BothCommit ==
    \A T1, T2 \in Trx, P0, P1 \in Pages :
       CycleAvoidance(T1, T2, P0, P1) =>
          /\ T2 \in S6_T1_end(T1).prevTrxs[T1]
          /\ S6_T2_end(T1, T2).status[T1] = "Committed"
          /\ S6_T2_end(T1, T2).status[T2] = "Committed"

\* C18, amended: T1.end() adds the edge T2 precedes T1 and leaves T1 Ready,
\* waiting for T2; T2.end() finds T1, a reader of the version of P1 that T2
\* supersedes, succeeding T2, so T2 fails and its end() returns with T2
\* Aborted, without raising; T1 is still Ready then.
C18_SecondAborts ==
    \A T1, T2 \in Trx, P0, P1 \in Pages :
       CycleAvoidance(T1, T2, P0, P1) =>
          /\ T2 \in S6_T1_end(T1).prevTrxs[T1]
          /\ S6_T1_end(T1).status[T1] = "Ready"
          /\ S6_T1_end(T1).latestVersion[P0] = <<T1, P0>>
          /\ Ok(S6_T2_end(T1, T2))
          /\ S6_T2_end(T1, T2).status[T2] = "Aborted"
          /\ S6_T2_end(T1, T2).status[T1] = "Ready"
          /\ S6_T2_end(T1, T2).latestVersion[P1] = <<Boot, P1>>

\* S6 after both end() calls: T1 is public, T2 is Aborted.
C18_Witness ==
    \E T1, T2 \in Trx, P0, P1 \in Pages :
       /\ T1 # T2 /\ P0 # P1
       /\ created \cap (Trx \X Pages) = {<<T1, P0>>, <<T2, P1>>}
       /\ \A x \in {T1, T2}, q \in {P0, P1} : bound[x][q] = <<Boot, q>>
       /\ status[T1] \in Public /\ status[T2] = "Aborted"
       /\ T2 \in prevTrxs[T1]

\* The statuses that trx enters in the call that leads to s, in order.
Entered(s, trx) ==
    {s.obs.entered[i][2] :
        i \in {j \in 1..Len(s.obs.entered) : s.obs.entered[j][1] = trx}}

\* In the call that leads to s, trx entered no status but Aborted and is
\* Failed or Aborted at the end.
StaysFailed(s, trx) ==
    /\ s.status[trx] \in {"Failed", "Aborted"}
    /\ Entered(s, trx) \subseteq {"Aborted"}

\* The call that leads to s returned, and trx is in status st.
Returns(s, trx, st) == Ok(s) /\ s.status[trx] = st

\* C19: whatever call is made, a Failed transaction is Failed or Aborted
\* afterwards and enters no status but Aborted on the way; its readPage and
\* updatePage return and leave it Failed; its end() returns with it Aborted.
C19_FailedNeverPublic ==
    \A t \in Trx :
       status[t] = "Failed" =>
          /\ \A call \in Calls : StaysFailed(dispatch(Cur, call), t)
          /\ \A p \in Pages :
                /\ Returns(dispatch_readPage(Cur, t, p), t, "Failed")
                /\ Returns(dispatch_updatePage(Cur, t, p), t, "Failed")
          /\ Returns(dispatch_end(Cur, t), t, "Aborted")

\* C20: after every call every page has a latest version, that version has
\* a writer, and the writer is Ready, Prepared or Committed.
C20_LatestVersionPublic ==
    \A p \in Pages :
       /\ latestVersion[p] # NoVer
       /\ vpage[latestVersion[p]] = p
       /\ writerTrx[latestVersion[p]] # NoTrx
       /\ status[writerTrx[latestVersion[p]]] \in Public

\* C21: after every call every member of every version's candidateTrxs is
\* Running or Failed.
C21_CandidatesPrivate ==
    \A v \in Versions : \A t \in candidateTrxs[v] : status[t] \in Private

\* C22: after every call no page is a key of both the readSet and the
\* updateSet of one transaction, the pool's transaction included.
C22_SetsDisjoint ==
    \A t \in AllTrx, p \in Pages :
       ~(readSet[t][p] # NoVer /\ updateSet[t][p] # NoVer)

\* C23: after every call the supersederTrx of every version is None or a
\* transaction that is Ready, Prepared or Committed.
C23_SupersederPublic ==
    \A v \in Versions :
       supersederTrx[v] # NoTrx => status[supersederTrx[v]] \in Public

\* A version has a superseder that waits in Ready, and another one was
\* superseded by a transaction that is Committed by now.
C23_Witness ==
    /\ \E v \in Versions :
          supersederTrx[v] \in Trx /\ status[supersederTrx[v]] = "Ready"
    /\ \E t \in Trx :
          /\ status[t] = "Committed"
          /\ \E p \in Pages : updateSet[t][p] # NoVer

Dependents(trx) ==
    {x \in AllTrx \ {trx} :
        \E p \in Pages :
           /\ updateSet[trx][p] # NoVer
           /\ \/ x \in readerTrxs[updateSet[trx][p]]
              \/ x = supersederTrx[updateSet[trx][p]]}

\* The call that leads to s returned with trx Aborted, and every dependent
\* of trx is Failed if it was private, Aborted if it was Ready or Prepared,
\* and as it was if it was Aborted.
AbortCascaded(s, trx) ==
    /\ Returns(s, trx, "Aborted")
    /\ \A x \in Dependents(trx) :
          /\ status[x] \in Private => s.status[x] = "Failed"
          /\ status[x] \in {"Ready", "Prepared", "Aborted"} =>
                s.status[x] = "Aborted"
          /\ status[x] # "Committed"

\* C25: fail() on a Ready transaction and abort() on a Prepared one leave it
\* Aborted, its private dependents Failed and its Ready or Prepared
\* dependents Aborted; no dependent is Committed.
C25_CascadeAbort ==
    \A t \in Trx :
       /\ status[t] = "Ready" => AbortCascaded(dispatch_fail(Cur, t), t)
       /\ status[t] = "Prepared" => AbortCascaded(dispatch_abort(Cur, t), t)

\* After the call that leads to s, trx is Aborted, none of its versions is
\* the latest version of its page, and trx supersedes no version.
RolledBack(s, trx) ==
    /\ s.status[trx] = "Aborted"
    /\ \A p \in Pages :
          updateSet[trx][p] # NoVer =>
             /\ s.latestVersion[p] # updateSet[trx][p]
             /\ \A v \in Versions : s.supersederTrx[v] # trx

RemovedWhenDone(r) ==
    \/ /\ r.status = "Committed"
       /\ r.nextTrxs = {}
       /\ r.pages = {}
    \/ /\ r.status = "Aborted"
       /\ r.nextTrxs = {}
       /\ r.prevs = {}
       /\ r.read = {}
       /\ r.written = {}

\* C27: in every call, removed() is signalled only for a Committed
\* transaction with empty readSet, updateSet and nextTrxs, or for an Aborted
\* one with empty nextTrxs that is in no nextTrxs and no readerTrxs any more
\* and whose versions have no writer.
C27_RemovedWhenDone ==
    \A call \in Calls :
       \A r \in dispatch(Cur, call).obs.removed : RemovedWhenDone(r)

\* removed() was signalled for a Committed user transaction and for an
\* Aborted one that had updated a page.
C27_Witness ==
    /\ \E t \in removedTrxs \cap Trx : status[t] = "Committed"
    /\ \E t \in removedTrxs \cap Trx :
          /\ status[t] = "Aborted"
          /\ \E p \in Pages : <<t, p>> \in created

Forwards ==
    {<<"Running", "Failed">>, <<"Running", "Ready">>, <<"Failed", "Aborted">>,
     <<"Ready", "Prepared">>, <<"Ready", "Aborted">>,
     <<"Prepared", "Committed">>, <<"Prepared", "Aborted">>}

\* Every change of status made by transit2 in the call that leads to s is
\* one of Forwards.
MovesForwards(s) == \A m \in s.obs.moves : <<m[2], m[3]>> \in Forwards

\* C29: in every call every change of a transaction's status is one of
\* Running to Failed, Running to Ready, Failed to Aborted, Ready to
\* Prepared, Ready to Aborted, Prepared to Committed, Prepared to Aborted.
C29_StatusMovesForwards ==
    \A call \in Calls : MovesForwards(dispatch(Cur, call))

\* One transaction went Running, Failed, Aborted, another is Committed and
\* a third one waits in Ready.
C29_Witness ==
    /\ \E t \in Trx : status[t] = "Aborted"
    /\ \E t \in Trx : status[t] = "Committed"
    /\ \E t \in Trx : status[t] = "Ready"

\* The call that leads to s made no other transaction than trx Failed or
\* Aborted and changed no latestVersion and no supersederTrx.
NobodyElseAffected(s, trx) ==
    /\ \A x \in AllTrx \ {trx} :
          s.status[x] \in {"Failed", "Aborted"} => s.status[x] = status[x]
    /\ s.latestVersion = latestVersion
    /\ s.supersederTrx = supersederTrx

\* C30: an end() that takes a Running or Failed transaction to Aborted
\* makes no other transaction Failed or Aborted and changes no page's
\* latestVersion and no version's supersederTrx.
C30_PrivateAbortAffectsNobody ==
    \A t \in Trx :
       status[t] \in Private =>
          (dispatch_end(Cur, t).status[t] = "Aborted" =>
              NobodyElseAffected(dispatch_end(Cur, t), t))

\* The call that leads to s returned ret and resolved no page.
Cached(s, ret) == Ok(s) /\ s.ret = ret /\ s.obs.resolved = {}

\* C31: while a private transaction has not updated a page it was given a
\* version of, readPage returns that version again, and updatePage makes
\* the new version from it, both without resolving the page; once it has
\* updated the page, readPage returns its own version.
C31_RepeatableAccess ==
    \A t \in Trx, p \in Pages :
       status[t] \in Private =>
          /\ (bound[t][p] # NoVer /\ updateSet[t][p] = NoVer) =>
                /\ Cached(dispatch_readPage(Cur, t, p), <<bound[t][p]>>)
                /\ Cached(dispatch_updatePage(Cur, t, p),
                          <<<<t, p>>, bound[t][p]>>)
          /\ updateSet[t][p] # NoVer =>
                Cached(dispatch_readPage(Cur, t, p), <<<<t, p>>>>)

\* A private transaction still holds a version it read although a
\* Committed transaction has superseded it since and the version has lost
\* its writer, and a private transaction has updated a page it had read.
C31_Witness ==
    /\ \E t \in Trx, p \in Pages :
          /\ status[t] \in Private
          /\ readSet[t][p] # NoVer
          /\ latestVersion[p] # readSet[t][p]
          /\ writerTrx[readSet[t][p]] = NoTrx
    /\ \E t \in Trx, p \in Pages :
          /\ status[t] \in Private
          /\ updateSet[t][p] # NoVer
          /\ t \in readerTrxs[bound[t][p]]

====
